---- MODULE Spec2Model ----
(***************************************************************************)
(* Model of the lms-react-ui authentication front-end: the App component   *)
(* (session, page, flash message), the five forms and the dashboard, the   *)
(* apiService.request normalizer and the validation helpers.               *)
(*                                                                         *)
(* One action is one run of a handler up to its next await; a response     *)
(* handler is the continuation after the await.  React applies the state   *)
(* writes of one handler run before any other handler can run, so a        *)
(* handler run is one step.                                                *)
(***************************************************************************)
EXTENDS Integers, Sequences, FiniteSets, Bags, TLC

\* ------------------------------------------------------------------ bounds
\* Requests of unmounted components that may be awaiting their response at
\* the same time (a mounted form has at most one, its button is disabled).
MaxOrphans == 1
\* Dismissal timeouts of App.showFlashMessage that may be pending at once.
MaxTimers == 2
\* The counter of GET /user requests saturates here.
MaxUserCalls == 2

\* --------------------------------------------------------- JavaScript values
\* A JavaScript value is a tagged record; each tag has its own field name, so
\* that two values of different types are different records.
Undefined == [t |-> "undefined"]
Null == [t |-> "null"]
JBool(b) == [t |-> "boolean", b |-> b]
JNum(n) == [t |-> "number", n |-> n]
\* A string whose text matters only as a whole (messages, tokens, roles).
JStr(s) == [t |-> "string", s |-> s]
\* A string the code inspects character by character: a tuple of characters.
JChars(c) == [t |-> "string", c |-> c]
\* An object: a function from its keys to values.
JObj(o) == [t |-> "object", o |-> o]
EmptyObject == JObj(<<>>)

IsObject(v) == v.t = "object"

HasKey(v, k) == IsObject(v) /\ k \in DOMAIN v.o

\* v.k for a value v that is not null or undefined (a missing property, and
\* any property of a primitive, reads as undefined).
Get(v, k) == IF HasKey(v, k) THEN v.o[k] ELSE Undefined

\* Reading a property of null or undefined throws a TypeError.
Throws(v) == v.t \in {"undefined", "null"}

\* ToBoolean
Truthy(v) ==
  CASE v.t = "undefined" -> FALSE
    [] v.t = "null" -> FALSE
    [] v.t = "boolean" -> v.b
    [] v.t = "number" -> v.n # 0
    [] v.t = "string" -> IF "c" \in DOMAIN v THEN v.c # <<>> ELSE v.s # ""
    [] OTHER -> TRUE

\* a || b
Or(a, b) == IF Truthy(a) THEN a ELSE b

\* --------------------------------------------------------- character strings
Digits == {"0", "1", "2", "3", "4", "5", "6", "7", "8", "9"}
Whitespace == {" "}

\* /.+@.+\..+/.test(s)  (LoginForm)
MatchesLooseEmail(s) ==
  \E i \in 1..Len(s) : \E j \in 1..Len(s) :
    /\ s[i] = "@" /\ i >= 2
    /\ s[j] = "." /\ j >= i + 2 /\ j < Len(s)

\* /\S+@\S+\.\S+/.test(s)  (ForgotPasswordForm, validation.js)
MatchesEmail(s) ==
  \E i \in 1..Len(s) : \E j \in 1..Len(s) :
    /\ s[i] = "@" /\ i >= 2 /\ s[i - 1] \notin Whitespace
    /\ s[j] = "." /\ j >= i + 2 /\ j < Len(s)
    /\ \A k \in (i + 1)..(j - 1) : s[k] \notin Whitespace
    /\ s[j + 1] \notin Whitespace

\* /^\d{6}$/.test(s)  (OTPVerificationForm)
MatchesSixDigits(s) == Len(s) = 6 /\ \A i \in 1..Len(s) : s[i] \in Digits

\* ------------------------------------------------------------------- inputs
\* What a user may type into an email field.
EmailInputs ==
  { <<>>,
    <<"a", "@", "b", ".", "c">>,
    <<"a", "@", "b">>,
    <<" ", "@", "b", ".", "c">> }

\* What a user may type into a password field.
PasswordInputs ==
  { <<>>,
    <<"a", "b", "c">>,
    <<"a", "b", "c", "d", "e", "f">>,
    <<" ", " ", " ", " ", " ", " ">> }

\* What a user may type into the three fields of ProfileSettings: current,
\* new and confirmation.
ProfileInputs ==
  LET short == <<"a", "b", "c">>
      long == <<"a", "b", "c", "d", "e", "f">>
      other == <<" ", " ", " ", " ", " ", " ">>
  IN { << <<>>, <<>>, <<>> >>,
       << <<>>, long, long >>,
       << long, <<>>, <<>> >>,
       << long, short, short >>,
       << short, short, short >>,
       << long, long, long >>,
       << long, other, short >>,
       << short, short, long >>,
       << long, other, other >> }

\* What a user may type into the OTP field.
OtpInputs ==
  { <<>>,
    <<"1", "2", "3", "4", "5", "6">>,
    <<"1", "2", "3", "4", "5">>,
    <<"1", "2", "a", "4", "5", "6">> }

\* ------------------------------------------------- apiService.request
\* What the transport hands back: fetch rejected or the body is not JSON
\* (parsed = FALSE), or a parsed JSON value.
TransportFailure == [parsed |-> FALSE, body |-> Undefined]
Parsed(v) == [parsed |-> TRUE, body |-> v]

\* The result every caller branches on.
ApiSuccess(d) == [success |-> TRUE, data |-> d, error |-> Undefined]
ApiFailure(e) == [success |-> FALSE, data |-> Undefined, error |-> e]

NetworkError ==
  ApiFailure(JObj([message |-> JStr("Network error or server unreachable."),
                   code |-> JStr("NETWORK_ERROR")]))

\* The first branch with body.error taking precedence over body.errors.
ExplicitSuccessErrorFirst(raw) ==
  IF Truthy(Get(raw, "success"))
  THEN ApiSuccess(Get(raw, "data"))
  ELSE IF Truthy(Get(raw, "error"))
       THEN ApiFailure(Get(raw, "error"))
       ELSE IF Truthy(Get(raw, "errors"))
            THEN ApiFailure(JObj([message |-> Or(Get(raw, "message"), JStr("Validation failed")),
                                  code |-> JStr("VALIDATION_ERROR"),
                                  details |-> Get(raw, "errors")]))
            ELSE ApiFailure(Get(raw, "error"))

\* The first branch: the body has a success field.
ExplicitSuccess(raw) ==
  IF Truthy(Get(raw, "success"))
  THEN ApiSuccess(Get(raw, "data"))
  ELSE IF Truthy(Get(raw, "errors"))
       THEN ApiFailure(JObj([message |-> Or(Get(raw, "message"), JStr("Validation failed")),
                             code |-> JStr("VALIDATION_ERROR"),
                             details |-> Get(raw, "errors")]))
       ELSE ApiFailure(Get(raw, "error"))

UnexpectedResponse(raw) ==
  ApiFailure(JObj([message |-> Or(Get(raw, "message"),
                                  JStr("An unexpected API response format was received.")),
                   code |-> JStr("UNEXPECTED_RESPONSE"),
                   details |-> raw]))

\* What a caller would get were the promise rejected.
Rejection == [rejected |-> TRUE]

\* request without its catch block: what throws in the try block rejects.
requestWithoutCatch(outcome) ==
  IF ~outcome.parsed THEN Rejection
  ELSE LET raw == outcome.body IN
    IF Throws(raw) THEN Rejection
    ELSE IF Get(raw, "success") # Undefined THEN ExplicitSuccess(raw)
    ELSE IF IsObject(raw) /\ ~Truthy(Get(raw, "error")) /\ ~Truthy(Get(raw, "errors"))
         THEN ApiSuccess(raw)
         ELSE UnexpectedResponse(raw)

\* request with the fallback deciding by the presence of the keys.
requestByKeyPresence(outcome) ==
  IF ~outcome.parsed THEN NetworkError
  ELSE LET raw == outcome.body IN
    IF Throws(raw) THEN NetworkError
    ELSE IF Get(raw, "success") # Undefined THEN ExplicitSuccess(raw)
    ELSE IF IsObject(raw) /\ ~HasKey(raw, "error") /\ ~HasKey(raw, "errors")
         THEN ApiSuccess(raw)
         ELSE UnexpectedResponse(raw)

\* apiService.request, from the transport's outcome on: the try block and
\* its catch.  Reading null.success throws inside the try block.
request(outcome) ==
  IF ~outcome.parsed THEN NetworkError
  ELSE LET raw == outcome.body IN
    IF Throws(raw) THEN NetworkError
    ELSE IF Get(raw, "success") # Undefined THEN ExplicitSuccess(raw)
    ELSE IF IsObject(raw) /\ ~Truthy(Get(raw, "error")) /\ ~Truthy(Get(raw, "errors"))
         THEN ApiSuccess(raw)
         ELSE UnexpectedResponse(raw)

\* ------------------------------------------------------------- the backend
\* The backend is not part of the repository: its answers are inputs.  The
\* success payloads are those of the interface table (access_token and user
\* for /login, a user object for /user, an optional message for the others),
\* wrapped in the envelope or bare; a user's role may be unrecognized or
\* missing; /user may also answer success with no data at all.
Envelope(d) == JObj([success |-> JBool(TRUE), data |-> d])

StoredToken == JStr("t0")
Tokens == {JStr("t1")}

\* The users the backend knows: one with a recognized role, one with a role
\* the front-end does not recognize, one without a role.
UserObjects ==
  { JObj([role |-> JStr("teacher")]), JObj([role |-> JStr("guest")]),
    JObj([name |-> JStr("n")]) }

\* The failures: a domain error without a message, validation errors with a
\* message, a failure without an error.
FailureBodies ==
  { JObj([success |-> JBool(FALSE), error |-> JObj([code |-> JStr("E_DOMAIN")])]),
    JObj([success |-> JBool(FALSE), message |-> JStr("srv"),
          errors |-> JObj([email |-> JStr("bad")])]),
    JObj([success |-> JBool(FALSE)]) }

LoginPayloads ==
  {JObj([access_token |-> t, user |-> u]) : t \in Tokens, u \in UserObjects}

MessagePayloads == {JObj([message |-> JStr("srv")]), EmptyObject}

SuccessBodies(endpoint) ==
  CASE endpoint = "/login" ->
         {Envelope(d) : d \in LoginPayloads} \cup LoginPayloads
    [] endpoint = "/user" ->
         {Envelope(d) : d \in UserObjects} \cup UserObjects
           \cup {JObj([success |-> JBool(TRUE)])}
    [] OTHER ->
         {Envelope(d) : d \in MessagePayloads} \cup {JObj([message |-> JStr("srv")])}

\* Every outcome the transport can produce for a request to the endpoint.
Outcomes(endpoint) ==
  {TransportFailure} \cup {Parsed(b) : b \in SuccessBodies(endpoint) \cup FailureBodies}

\* What apiService.request can resolve to for the endpoint.
Results(endpoint) == {request(outcome) : outcome \in Outcomes(endpoint)}

\* ------------------------------------------------------------------- state
VARIABLES
  storage,        \* localStorage's authToken entry: Null when absent
  token,          \* App state
  user,           \* App state
  loading,        \* App state: the loading gate
  flashMessage,   \* App state
  flashType,      \* App state
  currentPage,    \* App state: [name, data]
  isInitialMount, \* App ref
  timers,         \* pending timeouts of App.showFlashMessage; they fire in the
                  \* order they were set, the last one set is the latest message's
  form,           \* local state of the mounted page component
  inflight,       \* requests awaiting their response, with what their
                  \* continuation captured
  userCalls,      \* history: GET /user requests issued so far
  verified,       \* history: (email, otp) pairs /verify-otp answered success for
  lastEvent       \* history: the handler run that led to this state

vars ==
  << storage, token, user, loading, flashMessage, flashType, currentPage,
     isInitialMount, timers, form, inflight, userCalls, verified, lastEvent >>

PageNames ==
  {"login", "forgot-password", "verify-otp", "reset-password", "dashboard",
   "profile-settings"}

Page(name, data) == [name |-> name, data |-> data]

\* What the user typed into the fields of the mounted form before a submit.
\* The onChange handlers only store the typed text, so a submit takes the
\* texts as its input.  password and passwordConfirmation also stand for
\* ProfileSettings' newPassword and confirmNewPassword.
Typed(email, otp, password, passwordConfirmation, currentPassword) ==
  [email |-> email, otp |-> otp, password |-> password,
   passwordConfirmation |-> passwordConfirmation, currentPassword |-> currentPassword]
NoInput == Typed(<<>>, <<>>, <<>>, <<>>, <<>>)

\* A request in flight: its endpoint, the email and otp of its body where the
\* recovery flow hands them on, and whether the component that issued it is
\* still mounted (live).  The rest of the body and the headers are read by
\* nothing after the request is sent.
Request(endpoint, email, otp) ==
  [endpoint |-> endpoint, email |-> email, otp |-> otp, live |-> TRUE]
NoRequest == [endpoint |-> "", email |-> <<>>, otp |-> <<>>, live |-> FALSE]
NoResult == [success |-> FALSE, data |-> Undefined, error |-> Undefined]

Event(op, in, req, res) == [op |-> op, in |-> in, req |-> req, res |-> res]

\* initialData?.email || ''  and  initialData?.otp || ''
InitialText(data, k) ==
  IF Throws(data) THEN <<>>
  ELSE LET v == Get(data, k) IN IF Truthy(v) THEN v.c ELSE <<>>

\* The local state a page component starts with (its useState initial values):
\* OTPVerificationForm and ResetPasswordForm take email and otp from initialData.
MountedForm(page) ==
  [email |-> IF page.name \in {"verify-otp", "reset-password"}
             THEN InitialText(page.data, "email") ELSE <<>>,
   otp |-> IF page.name = "reset-password" THEN InitialText(page.data, "otp") ELSE <<>>,
   loading |-> FALSE,
   errors |-> EmptyObject]

\* The mounted component after setCurrentPage(page): a page of another name
\* unmounts it and mounts a new one; under the same name it stays, and
\* ResetPasswordForm's effect copies a non-null initialData into its state.
Rendered(page, f) ==
  IF page.name # currentPage.name THEN MountedForm(page)
  ELSE IF page.name = "reset-password" /\ Truthy(page.data)
       THEN [f EXCEPT !.email = InitialText(page.data, "email"),
                      !.otp = InitialText(page.data, "otp")]
       ELSE f

\* The requests after setCurrentPage(page): those of an unmounted component
\* stay in flight, their continuation still runs.
Orphaned(page, q) ==
  IF page.name # currentPage.name
  THEN LET stale == {[r EXCEPT !.live = FALSE] : r \in BagToSet(q)} IN
       [s \in stale |->
          (IF BagIn([s EXCEPT !.live = TRUE], q) THEN q[[s EXCEPT !.live = TRUE]] ELSE 0)
          + (IF BagIn(s, q) THEN q[s] ELSE 0)]
  ELSE q

\* setCurrentPage(page), with f and q the form state and the requests the
\* handler leaves otherwise.
setCurrentPage(page, f, q) ==
  /\ BagCardinality(Orphaned(page, q)) <= MaxOrphans \/ page.name = currentPage.name
  /\ currentPage' = page
  /\ form' = Rendered(page, f)
  /\ inflight' = Orphaned(page, q)

\* The handler does not call setCurrentPage.
StayOnPage(f, q) ==
  /\ currentPage' = currentPage
  /\ form' = f
  /\ inflight' = q

\* App.showFlashMessage
showFlashMessage(message, type) ==
  /\ timers < MaxTimers
  /\ flashMessage' = message
  /\ flashType' = JStr(type)
  /\ timers' = timers + 1

NoFlash == UNCHANGED << flashMessage, flashType, timers >>

\* redirectToDashboard without the case for 'hod'.
redirectToDashboardWithoutHod(role) ==
  CASE role = JStr("super_admin") -> Page("dashboard", Null)
    [] role = JStr("school_admin") -> Page("dashboard", Null)
    [] role = JStr("teacher") -> Page("dashboard", Null)
    [] role = JStr("student") -> Page("dashboard", Null)
    [] OTHER -> Page("login", Null)

\* redirectToDashboard with the dashboard as its default case.
redirectToDashboardByDefault(role) == Page("dashboard", Null)

\* App.redirectToDashboard: the page it sets.
redirectToDashboard(role) ==
  CASE role = JStr("super_admin") -> Page("dashboard", Null)
    [] role = JStr("school_admin") -> Page("dashboard", Null)
    [] role = JStr("hod") -> Page("dashboard", Null)
    [] role = JStr("teacher") -> Page("dashboard", Null)
    [] role = JStr("student") -> Page("dashboard", Null)
    [] OTHER -> Page("login", Null)

\* localStorage.setItem stores the string form of the value.
Stored(v) == IF v.t = "string" THEN v ELSE JStr(v.t)

Sent(q, req) == q (+) SetToBag({req})
Without(q, req) == q (-) SetToBag({req})

Counted(n) == IF n < MaxUserCalls THEN n + 1 ELSE n

\* The state after construction: App's useState initial values; token is
\* read from localStorage.
Init ==
  /\ storage \in {Null, StoredToken}
  /\ token = storage
  /\ user = Null
  /\ loading = TRUE
  /\ flashMessage = Null
  /\ flashType = Null
  /\ currentPage = Page("login", Null)
  /\ isInitialMount = TRUE
  /\ timers = 0
  /\ form = MountedForm(Page("login", Null))
  /\ inflight = EmptyBag
  /\ userCalls = 0
  /\ verified = {}
  /\ lastEvent = Event("init", NoInput, NoRequest, NoResult)

\* ---------------------------------------------------------------- App
\* The mount effect's checkAuth, up to its await.  The effect may be invoked
\* again (a re-render, a development double invocation): the ref decides.
checkAuthInitial ==
  /\ isInitialMount' = FALSE
  /\ IF Truthy(token)
     THEN /\ inflight' = Sent(inflight, Request("/user", <<>>, <<>>))
          /\ userCalls' = Counted(userCalls)
          /\ lastEvent' = Event("checkAuth.request", NoInput, NoRequest, NoResult)
          /\ UNCHANGED << storage, token, user, loading, flashMessage, flashType,
                          timers, currentPage, form, verified >>
     ELSE /\ currentPage' = Page("login", Null)
          /\ loading' = FALSE
          /\ form' = MountedForm(Page("login", Null))
          /\ lastEvent' = Event("checkAuth.noToken", NoInput, NoRequest, NoResult)
          /\ UNCHANGED << storage, token, user, flashMessage, flashType, timers,
                          inflight, userCalls, verified >>

\* checkAuth without the ref: the body runs on every invocation.
checkAuthEveryRun == checkAuthInitial

checkAuth == IF isInitialMount THEN checkAuthInitial ELSE UNCHANGED vars

\* The failure branch's writes to the session: setToken(null), removeItem.
checkAuthExpiredKeepsStorage ==
  /\ token' = Null
  /\ storage' = storage

checkAuthExpired ==
  /\ token' = Null
  /\ storage' = Null

\* The role the success branch redirects by: response.data.role.
checkAuthRoleOfUserField(data) == Get(Get(data, "user"), "role")

checkAuthRole(data) == Get(data, "role")

\* checkAuth after its await: the /user response.  Nothing is mounted while
\* the gate is up; the page component mounts when it clears.
checkAuthResponse(req, res) ==
  LET rest == Without(inflight, req)
  IN
  /\ isInitialMount' = isInitialMount
  /\ UNCHANGED << userCalls, verified >>
  /\ inflight' = rest
  /\ IF res.success
     THEN /\ user' = res.data
          /\ UNCHANGED << storage, token >>
          /\ NoFlash
          /\ lastEvent' = Event("checkAuth.success", NoInput, req, res)
          /\ IF Throws(res.data)
             THEN \* response.data.role throws: the rest of checkAuth never runs
                  UNCHANGED << currentPage, form, loading >>
             ELSE /\ currentPage' = redirectToDashboard(checkAuthRole(res.data))
                  /\ form' = MountedForm(currentPage')
                  /\ loading' = FALSE
     ELSE /\ checkAuthExpired
          /\ user' = user
          /\ showFlashMessage(JStr("Your session has expired. Please log in again."), "danger")
          /\ currentPage' = Page("login", Null)
          /\ form' = MountedForm(currentPage')
          /\ loading' = FALSE
          /\ lastEvent' = Event("checkAuth.failure", NoInput, req, res)

\* A timeout that leaves the message on display.
showFlashMessageTimeoutKeepsMessage ==
  /\ timers > 0
  /\ timers' = timers - 1
  /\ lastEvent' = Event("showFlashMessage.timeout", NoInput, NoRequest, NoResult)
  /\ UNCHANGED << storage, token, user, loading, flashMessage, flashType, currentPage,
                  isInitialMount, form, inflight, userCalls, verified >>

\* The timeout set by App.showFlashMessage fires.
showFlashMessageTimeout ==
  /\ timers > 0
  /\ timers' = timers - 1
  /\ flashMessage' = Null
  /\ flashType' = Null
  /\ lastEvent' = Event("showFlashMessage.timeout", NoInput, NoRequest, NoResult)
  /\ UNCHANGED << storage, token, user, loading, currentPage, isInitialMount, form,
                  inflight, userCalls, verified >>

\* -------------------------------------------------------- FlashMessage
\* onClose, as App passes it: setFlashMessage(null).
onClose(op) ==
  /\ ~loading
  /\ Truthy(flashMessage)
  /\ flashMessage' = Null
  /\ lastEvent' = Event(op, NoInput, NoRequest, NoResult)
  /\ UNCHANGED << storage, token, user, loading, flashType, timers, currentPage,
                  isInitialMount, form, inflight, userCalls, verified >>

\* The close button.
FlashMessageClose == onClose("FlashMessage.close")

\* The component's own timeout: its effect runs again on every render of App
\* (onClose is a new function each time), so one is pending whenever a message
\* is displayed.
FlashMessageTimeout == onClose("FlashMessage.timeout")

\* ---------------------------------------------------------------- forms
\* newErrors as the object validateForm builds: the fields with a message.
ErrorObject(messages) ==
  JObj([k \in {f \in DOMAIN messages : messages[f] # ""} |-> JStr(messages[k])])

IsValid(errors) == DOMAIN errors.o = {}

\* The mounted component's state after setLoading(false), setErrors(e): the
\* setters of an unmounted component do nothing.
Loaded(req, f) == IF req.live THEN [f EXCEPT !.loading = FALSE] ELSE f
WithErrors(req, f, e) == IF req.live THEN [f EXCEPT !.errors = e] ELSE f

\* A submit button that stays enabled while the form's request is in flight.
CanSubmitWhileLoading(name) == ~loading /\ currentPage.name = name

\* A form is displayed and its submit button enabled.
CanSubmit(name) == ~loading /\ currentPage.name = name /\ ~form.loading

\* A link that hands the page's data on.
LinkKeepsData(from, to, op) ==
  /\ ~loading
  /\ currentPage.name = from
  /\ setCurrentPage(Page(to, currentPage.data), form, inflight)
  /\ lastEvent' = Event(op, NoInput, NoRequest, NoResult)
  /\ UNCHANGED << storage, token, user, loading, flashMessage, flashType, timers,
                  isInitialMount, userCalls, verified >>

\* A link of the displayed page: setCurrentPage({name, data: null}).
Link(from, to, op) ==
  /\ ~loading
  /\ currentPage.name = from
  /\ setCurrentPage(Page(to, Null), form, inflight)
  /\ lastEvent' = Event(op, NoInput, NoRequest, NoResult)
  /\ UNCHANGED << storage, token, user, loading, flashMessage, flashType, timers,
                  isInitialMount, userCalls, verified >>

\* The failure branch every form shares: setErrors(response.error.details || {}),
\* showFlashMessage(response.error.message || fallback, 'danger').  Reading a
\* property of an undefined error throws, and the handler ends there.
FailureBranchClearsSession(req, f, rest, res, fallback) ==
  /\ storage' = Null /\ token' = Null /\ user' = user
  /\ IF Throws(res.error)
     THEN StayOnPage(f, rest) /\ NoFlash
     ELSE /\ StayOnPage(WithErrors(req, f, Or(Get(res.error, "details"), EmptyObject)), rest)
          /\ showFlashMessage(Or(Get(res.error, "message"), JStr(fallback)), "danger")

FailureBranch(req, f, rest, res, fallback) ==
  /\ UNCHANGED << storage, token, user >>
  /\ IF Throws(res.error)
     THEN StayOnPage(f, rest) /\ NoFlash
     ELSE /\ StayOnPage(WithErrors(req, f, Or(Get(res.error, "details"), EmptyObject)), rest)
          /\ showFlashMessage(Or(Get(res.error, "message"), JStr(fallback)), "danger")

\* A submit that passed validation: setLoading(true) and the request.
Submitted(errors, req) ==
  /\ form' = [form EXCEPT !.errors = errors, !.loading = TRUE]
  /\ inflight' = Sent(inflight, req)

\* A submit that failed validation: setErrors(newErrors) and return.
Rejected(errors) ==
  /\ form' = [form EXCEPT !.errors = errors]
  /\ inflight' = inflight

\* ------------------------------------------------------------ LoginForm
\* validateForm stopping at the first invalid field.
LoginForm_validateFirstInvalid(email, password) ==
  ErrorObject(
    [email |-> IF email = <<>> THEN "Email is required."
               ELSE IF ~MatchesLooseEmail(email) THEN "Email format is invalid."
               ELSE "",
     password |-> IF email = <<>> \/ ~MatchesLooseEmail(email) THEN ""
                  ELSE IF password = <<>> THEN "Password is required."
                  ELSE IF Len(password) < 6 THEN "Password must be at least 6 characters."
                  ELSE ""])

LoginForm_validateForm(email, password) ==
  ErrorObject(
    [email |-> IF email = <<>> THEN "Email is required."
               ELSE IF ~MatchesLooseEmail(email) THEN "Email format is invalid."
               ELSE "",
     password |-> IF password = <<>> THEN "Password is required."
                  ELSE IF Len(password) < 6 THEN "Password must be at least 6 characters."
                  ELSE ""])

\* LoginForm.handleSubmit up to its await.
LoginForm_handleSubmit(email, password) ==
  LET newErrors == LoginForm_validateForm(email, password) IN
  /\ CanSubmit("login")
  /\ IF IsValid(newErrors)
     THEN Submitted(newErrors, Request("/login", <<>>, <<>>))
     ELSE Rejected(newErrors)
  /\ lastEvent' = Event("login.submit", Typed(email, <<>>, password, <<>>, <<>>),
                        NoRequest, NoResult)
  /\ UNCHANGED << storage, token, user, loading, flashMessage, flashType, timers,
                  currentPage, isInitialMount, userCalls, verified >>

\* The success branch's writes to the session.
LoginForm_storeSessionInStateOnly(data) ==
  /\ storage' = storage
  /\ token' = Get(data, "access_token")
  /\ user' = Get(data, "user")

LoginForm_storeSession(data) ==
  /\ storage' = Stored(Get(data, "access_token"))
  /\ token' = Get(data, "access_token")
  /\ user' = Get(data, "user")

\* LoginForm.handleSubmit after its await.
LoginForm_handleResponse(req, res) ==
  LET rest == Without(inflight, req)
      f == Loaded(req, form)
      data == res.data
  IN
  /\ UNCHANGED << loading, isInitialMount, userCalls, verified >>
  /\ IF res.success
     THEN /\ lastEvent' = Event("login.success", NoInput, req, res)
          /\ IF Throws(data)
             THEN /\ UNCHANGED << storage, token, user >>
                  /\ NoFlash
                  /\ StayOnPage(f, rest)
             ELSE /\ LoginForm_storeSession(data)
                  /\ showFlashMessage(JStr("Login successful!"), "success")
                  /\ IF Throws(Get(data, "user"))
                     THEN StayOnPage(f, rest)
                     ELSE setCurrentPage(redirectToDashboard(Get(Get(data, "user"), "role")),
                                         f, rest)
     ELSE /\ lastEvent' = Event("login.failure", NoInput, req, res)
          /\ FailureBranch(req, f, rest, res, "Login failed. Please try again.")

LoginForm_forgotPassword == Link("login", "forgot-password", "login.forgotPassword")

\* --------------------------------------------------- ForgotPasswordForm
\* The branch for the literal 'debug-invalid-email' gives the message of the
\* pattern branch, which that text fails as well.
ForgotPasswordForm_validateEmailLoose(email) ==
  ErrorObject(
    [email |-> IF email = <<>> THEN "Email is required."
               ELSE IF ~MatchesLooseEmail(email) THEN "Email format is invalid."
               ELSE ""])

ForgotPasswordForm_validateEmail(email) ==
  ErrorObject(
    [email |-> IF email = <<>> THEN "Email is required."
               ELSE IF ~MatchesEmail(email) THEN "Email format is invalid."
               ELSE ""])

ForgotPasswordForm_handleRequestOtp(email) ==
  LET newErrors == ForgotPasswordForm_validateEmail(email) IN
  /\ CanSubmit("forgot-password")
  /\ IF IsValid(newErrors)
     THEN Submitted(newErrors, Request("/forgot-password", email, <<>>))
     ELSE Rejected(newErrors)
  /\ lastEvent' = Event("forgot-password.submit", Typed(email, <<>>, <<>>, <<>>, <<>>),
                        NoRequest, NoResult)
  /\ UNCHANGED << storage, token, user, loading, flashMessage, flashType, timers,
                  currentPage, isInitialMount, userCalls, verified >>

\* After the await.  setOtpSent(true) is followed by the page change that
\* unmounts the form, so otpSent is never read as true.
ForgotPasswordForm_handleResponse(req, res) ==
  LET rest == Without(inflight, req)
      f == Loaded(req, form)
  IN
  /\ UNCHANGED << loading, isInitialMount, userCalls, verified >>
  /\ IF res.success
     THEN /\ lastEvent' = Event("forgot-password.success", NoInput, req, res)
          /\ UNCHANGED << storage, token, user >>
          /\ IF Throws(res.data)
             THEN NoFlash /\ StayOnPage(f, rest)
             ELSE /\ showFlashMessage(Or(Get(res.data, "message"), JStr("OTP sent successfully!")),
                                      "success")
                  /\ setCurrentPage(Page("verify-otp", JObj([email |-> JChars(req.email)])),
                                    f, rest)
     ELSE /\ lastEvent' = Event("forgot-password.failure", NoInput, req, res)
          /\ FailureBranch(req, f, rest, res, "Failed to send OTP. Please try again.")

ForgotPasswordForm_back == Link("forgot-password", "login", "forgot-password.back")

\* -------------------------------------------------- OTPVerificationForm
OTPVerificationForm_validateForm(otp) ==
  ErrorObject(
    [otp |-> IF otp = <<>> THEN "OTP is required."
             ELSE IF ~MatchesSixDigits(otp) THEN "OTP must be a 6-digit number."
             ELSE ""])

\* email is the component's state, set when it mounted.
OTPVerificationForm_handleVerifyOtp(otp) ==
  LET newErrors == OTPVerificationForm_validateForm(otp) IN
  /\ CanSubmit("verify-otp")
  /\ IF IsValid(newErrors)
     THEN Submitted(newErrors, Request("/verify-otp", form.email, otp))
     ELSE Rejected(newErrors)
  /\ lastEvent' = Event("verify-otp.submit", Typed(form.email, otp, <<>>, <<>>, <<>>),
                        NoRequest, NoResult)
  /\ UNCHANGED << storage, token, user, loading, flashMessage, flashType, timers,
                  currentPage, isInitialMount, userCalls, verified >>

\* The page the success branch sets: { email, otp } of the request.
OTPVerificationForm_resetPasswordPageWithoutOtp(req) ==
  Page("reset-password", JObj([email |-> JChars(req.email)]))

OTPVerificationForm_resetPasswordPage(req) ==
  Page("reset-password", JObj([email |-> JChars(req.email), otp |-> JChars(req.otp)]))

OTPVerificationForm_handleResponse(req, res) ==
  LET rest == Without(inflight, req)
      f == Loaded(req, form)
  IN
  /\ UNCHANGED << loading, isInitialMount, userCalls >>
  /\ UNCHANGED << storage, token, user >>
  /\ IF res.success
     THEN /\ lastEvent' = Event("verify-otp.success", NoInput, req, res)
          /\ verified' = verified \cup {<< req.email, req.otp >>}
          /\ IF Throws(res.data)
             THEN NoFlash /\ StayOnPage(f, rest)
             ELSE /\ showFlashMessage(Or(Get(res.data, "message"),
                                         JStr("OTP verified successfully!")), "success")
                  /\ setCurrentPage(OTPVerificationForm_resetPasswordPage(req), f, rest)
     ELSE /\ lastEvent' = Event("verify-otp.failure", NoInput, req, res)
          /\ verified' = verified
          /\ IF Throws(res.error)
             THEN StayOnPage(f, rest) /\ NoFlash
             ELSE /\ StayOnPage(WithErrors(req, f, Or(Get(res.error, "details"), EmptyObject)),
                                rest)
                  /\ showFlashMessage(Or(Get(res.error, "message"),
                                         JStr("OTP verification failed. Please try again.")),
                                      "danger")

OTPVerificationForm_back == Link("verify-otp", "forgot-password", "verify-otp.back")

\* ---------------------------------------------------- ResetPasswordForm
ResetPasswordForm_validateForm(email, otp, password, passwordConfirmation) ==
  ErrorObject(
    [email |-> IF email = <<>> THEN "Email is required." ELSE "",
     otp |-> IF otp = <<>> THEN "OTP is required." ELSE "",
     password |-> IF password = <<>> THEN "New password is required."
                  ELSE IF Len(password) < 6 THEN "Password must be at least 6 characters."
                  ELSE "",
     passwordConfirmation |-> IF password # passwordConfirmation
                              THEN "Passwords do not match." ELSE ""])

\* email and otp are the component's state (hidden fields).
ResetPasswordForm_handleResetPassword(password, passwordConfirmation) ==
  LET newErrors ==
        ResetPasswordForm_validateForm(form.email, form.otp, password, passwordConfirmation)
  IN
  /\ CanSubmit("reset-password")
  /\ IF IsValid(newErrors)
     THEN Submitted(newErrors, Request("/reset-password", form.email, form.otp))
     ELSE Rejected(newErrors)
  /\ lastEvent' = Event("reset-password.submit",
                        Typed(form.email, form.otp, password, passwordConfirmation, <<>>),
                        NoRequest, NoResult)
  /\ UNCHANGED << storage, token, user, loading, flashMessage, flashType, timers,
                  currentPage, isInitialMount, userCalls, verified >>

\* The page the success branch sets.
ResetPasswordForm_dashboardPage == Page("dashboard", Null)

ResetPasswordForm_successPage == Page("login", Null)

ResetPasswordForm_handleResponse(req, res) ==
  LET rest == Without(inflight, req)
      f == Loaded(req, form)
  IN
  /\ UNCHANGED << loading, isInitialMount, userCalls, verified >>
  /\ IF res.success
     THEN /\ lastEvent' = Event("reset-password.success", NoInput, req, res)
          /\ UNCHANGED << storage, token, user >>
          /\ IF Throws(res.data)
             THEN NoFlash /\ StayOnPage(f, rest)
             ELSE /\ showFlashMessage(Or(Get(res.data, "message"),
                                         JStr("Password updated successfully!")), "success")
                  /\ setCurrentPage(ResetPasswordForm_successPage, f, rest)
     ELSE /\ lastEvent' = Event("reset-password.failure", NoInput, req, res)
          /\ FailureBranch(req, f, rest, res, "Password reset failed. Please try again.")

ResetPasswordForm_back == Link("reset-password", "login", "reset-password.back")

\* ------------------------------------------------------ ProfileSettings
\* The later assignment to newErrors.newPassword replaces the earlier one.
ProfileSettings_validateForm(currentPassword, newPassword, confirmNewPassword) ==
  ErrorObject(
    [currentPassword |-> IF currentPassword = <<>> THEN "Current password is required."
                         ELSE "",
     newPassword |->
       IF newPassword # <<>> /\ currentPassword # <<>> /\ newPassword = currentPassword
       THEN "New password cannot be the same as the current password."
       ELSE IF newPassword = <<>> THEN "New password is required."
       ELSE IF Len(newPassword) < 6 THEN "New password must be at least 6 characters."
       ELSE "",
     confirmNewPassword |-> IF newPassword # confirmNewPassword
                            THEN "Passwords do not match." ELSE ""])

ProfileSettings_handleChangePassword(currentPassword, newPassword, confirmNewPassword) ==
  LET newErrors ==
        ProfileSettings_validateForm(currentPassword, newPassword, confirmNewPassword)
  IN
  /\ CanSubmit("profile-settings")
  /\ IF IsValid(newErrors)
     THEN Submitted(newErrors, Request("/profile/reset-password", <<>>, <<>>))
     ELSE Rejected(newErrors)
  /\ lastEvent' = Event("profile-settings.submit",
                        Typed(<<>>, <<>>, newPassword, confirmNewPassword, currentPassword),
                        NoRequest, NoResult)
  /\ UNCHANGED << storage, token, user, loading, flashMessage, flashType, timers,
                  currentPage, isInitialMount, userCalls, verified >>

\* The success branch's writes to the session.
ProfileSettings_clearSessionKeepsUser ==
  /\ storage' = Null
  /\ token' = Null
  /\ user' = user

\* The success branch removing the stored token but not the token state.
ProfileSettings_clearSessionKeepsToken ==
  /\ storage' = Null
  /\ token' = token
  /\ user' = Null

ProfileSettings_clearSession ==
  /\ storage' = Null
  /\ token' = Null
  /\ user' = Null

ProfileSettings_handleResponse(req, res) ==
  LET rest == Without(inflight, req)
      f == Loaded(req, form)
  IN
  /\ UNCHANGED << loading, isInitialMount, userCalls, verified >>
  /\ IF res.success
     THEN /\ lastEvent' = Event("profile-settings.success", NoInput, req, res)
          /\ IF Throws(res.data)
             THEN /\ UNCHANGED << storage, token, user >>
                  /\ NoFlash
                  /\ StayOnPage(f, rest)
             ELSE /\ showFlashMessage(
                       Or(Get(res.data, "message"),
                          JStr("Password updated successfully! Please log in again.")),
                       "success")
                  /\ ProfileSettings_clearSession
                  /\ setCurrentPage(Page("login", Null), f, rest)
     ELSE /\ lastEvent' = Event("profile-settings.failure", NoInput, req, res)
          /\ FailureBranch(req, f, rest, res, "Failed to update password. Please try again.")

ProfileSettings_back == Link("profile-settings", "dashboard", "profile-settings.back")

\* ------------------------------------------------------------ Dashboard
\* handleLogout's writes to the session.
Dashboard_clearSessionKeepsUser ==
  /\ storage' = Null
  /\ token' = Null
  /\ user' = user

Dashboard_clearSessionKeepsStorage ==
  /\ storage' = storage
  /\ token' = Null
  /\ user' = Null

Dashboard_clearSession ==
  /\ storage' = Null
  /\ token' = Null
  /\ user' = Null

\* Without a user the component renders a notice and no buttons.
Dashboard_handleLogout ==
  /\ ~loading
  /\ currentPage.name = "dashboard"
  /\ Truthy(user)
  /\ Dashboard_clearSession
  /\ showFlashMessage(JStr("Logged out successfully."), "success")
  /\ setCurrentPage(Page("login", Null), form, inflight)
  /\ lastEvent' = Event("dashboard.logout", NoInput, NoRequest, NoResult)
  /\ UNCHANGED << loading, isInitialMount, userCalls, verified >>

Dashboard_profileSettings ==
  /\ Truthy(user)
  /\ Link("dashboard", "profile-settings", "dashboard.profileSettings")

\* ----------------------------------------------------------------- Next
\* The response to a request in flight is handled by the continuation of the
\* handler that issued it.
Respond ==
  \E req \in BagToSet(inflight) :
    \E res \in Results(req.endpoint) :
      \/ req.endpoint = "/user" /\ checkAuthResponse(req, res)
      \/ req.endpoint = "/login" /\ LoginForm_handleResponse(req, res)
      \/ req.endpoint = "/forgot-password" /\ ForgotPasswordForm_handleResponse(req, res)
      \/ req.endpoint = "/verify-otp" /\ OTPVerificationForm_handleResponse(req, res)
      \/ req.endpoint = "/reset-password" /\ ResetPasswordForm_handleResponse(req, res)
      \/ req.endpoint = "/profile/reset-password" /\ ProfileSettings_handleResponse(req, res)

Submit ==
  \/ \E email \in EmailInputs, password \in PasswordInputs :
       LoginForm_handleSubmit(email, password)
  \/ \E email \in EmailInputs : ForgotPasswordForm_handleRequestOtp(email)
  \/ \E otp \in OtpInputs : OTPVerificationForm_handleVerifyOtp(otp)
  \/ \E password \in PasswordInputs, passwordConfirmation \in PasswordInputs :
       ResetPasswordForm_handleResetPassword(password, passwordConfirmation)
  \/ \E typed \in ProfileInputs :
       ProfileSettings_handleChangePassword(typed[1], typed[2], typed[3])

Navigate ==
  \/ LoginForm_forgotPassword
  \/ ForgotPasswordForm_back
  \/ OTPVerificationForm_back
  \/ ResetPasswordForm_back
  \/ ProfileSettings_back
  \/ Dashboard_profileSettings
  \/ Dashboard_handleLogout

Next ==
  \/ checkAuth
  \/ Respond
  \/ Submit
  \/ Navigate
  \/ showFlashMessageTimeout
  \/ FlashMessageClose
  \/ FlashMessageTimeout

Spec == Init /\ [][Next]_vars

\* The application with its timers running: a timeout that App.showFlashMessage
\* has set fires after its delay, nothing cancels it.  The timeout of the
\* FlashMessage component is started anew at every render of App, so nothing
\* is assumed of it.
SpecFair == Spec /\ WF_vars(showFlashMessageTimeout)

\* ----------------------------------------------- apiService.request alone
\* request applied to every outcome of the transport: a failure, or a parsed
\* body that is null, a string, a number, a boolean, or an object with any
\* choice of the keys request reads, each absent or holding a value of one of
\* several types.
Absent == [t |-> "absent"]

ObjectOf(fields) ==
  JObj([k \in {x \in DOMAIN fields : fields[x] # Absent} |-> fields[k]])

SuccessValues == {Absent, JBool(TRUE), JBool(FALSE), Null, JStr("no")}
DataValues == {Absent, JObj([x |-> JStr("1")])}
ErrorValues ==
  {Absent, Null, JStr(""), JObj([message |-> JStr("srv")]), JObj([code |-> JStr("E_DOMAIN")])}
ErrorsValues == {Absent, Null, EmptyObject, JObj([email |-> JStr("bad")])}
MessageValues == {Absent, JStr("srv"), JStr("")}
FooValues == {Absent, JStr("bar")}

ObjectBodies ==
  {ObjectOf([success |-> s, data |-> d, error |-> e, errors |-> es, message |-> m,
             foo |-> f]) :
     s \in SuccessValues, d \in DataValues, e \in ErrorValues, es \in ErrorsValues,
     m \in MessageValues, f \in FooValues}

Bodies ==
  ObjectBodies
    \cup {Null, JStr("oops"), JStr(""), JNum(0), JNum(5), JBool(TRUE), JBool(FALSE)}

TransportOutcomes == {TransportFailure} \cup {Parsed(b) : b \in Bodies}

\* One call of apiService.request: the outcome and what the call resolved to.
apiService_request(outcome) ==
  /\ lastEvent' = Event("apiService.request", outcome, NoRequest, request(outcome))
  /\ UNCHANGED << storage, token, user, loading, flashMessage, flashType, currentPage,
                  isInitialMount, timers, form, inflight, userCalls, verified >>

NextNormalizer == \E outcome \in TransportOutcomes : apiService_request(outcome)

SpecNormalizer == Init /\ [][NextNormalizer]_vars

\* ------------------------------------------------- the recovery flow alone
\* The application of a visitor who never logs in, with two emails and two
\* codes that pass validation, so that what one step hands to the next can
\* be told apart, and a code of six spaces.
RecoveryEmails == EmailInputs \cup { <<"z", "@", "b", ".", "c">> }
RecoveryOtps ==
  OtpInputs \cup { <<"6", "5", "4", "3", "2", "1">>, <<" ", " ", " ", " ", " ", " ">> }

InitRecovery == Init /\ storage = Null

RespondRecovery ==
  \E req \in BagToSet(inflight) :
    \E res \in Results(req.endpoint) :
      \/ req.endpoint = "/forgot-password" /\ ForgotPasswordForm_handleResponse(req, res)
      \/ req.endpoint = "/verify-otp" /\ OTPVerificationForm_handleResponse(req, res)
      \/ req.endpoint = "/reset-password" /\ ResetPasswordForm_handleResponse(req, res)

SubmitRecovery ==
  \/ \E email \in RecoveryEmails : ForgotPasswordForm_handleRequestOtp(email)
  \/ \E otp \in RecoveryOtps : OTPVerificationForm_handleVerifyOtp(otp)
  \/ \E password \in PasswordInputs, passwordConfirmation \in PasswordInputs :
       ResetPasswordForm_handleResetPassword(password, passwordConfirmation)

NavigateRecovery ==
  \/ LoginForm_forgotPassword
  \/ ForgotPasswordForm_back
  \/ OTPVerificationForm_back
  \/ ResetPasswordForm_back

NextRecovery ==
  \/ checkAuth
  \/ RespondRecovery
  \/ SubmitRecovery
  \/ NavigateRecovery
  \/ showFlashMessageTimeout
  \/ FlashMessageClose
  \/ FlashMessageTimeout

SpecRecovery == InitRecovery /\ [][NextRecovery]_vars

\* ---------------------------------------------------- validation.js alone
\* String.prototype.trim
RECURSIVE trimStart(_)
trimStart(s) == IF s # <<>> /\ Head(s) \in Whitespace THEN trimStart(Tail(s)) ELSE s

RECURSIVE trimEnd(_)
trimEnd(s) ==
  IF s # <<>> /\ s[Len(s)] \in Whitespace THEN trimEnd(SubSeq(s, 1, Len(s) - 1)) ELSE s

trim(s) == trimEnd(trimStart(s))

\* /^\d+$/.test(s)
MatchesDigits(s) == s # <<>> /\ \A i \in 1..Len(s) : s[i] \in Digits

\* The rules: value is null, undefined or a string, message a string.
isRequired(value, message) ==
  IF value = Null \/ value = Undefined \/ trim(value.c) = <<>> THEN message ELSE Undefined

isValidEmail(value, message) ==
  IF Truthy(value) /\ ~MatchesEmail(value.c) THEN message ELSE Undefined

hasMinLength(value, minLength, message) ==
  IF Truthy(value) /\ Len(value.c) < minLength THEN message ELSE Undefined

isMatching(value, otherValue, message) ==
  IF value # otherValue THEN message ELSE Undefined

isNumericAndLength(value, length, message) ==
  IF Truthy(value) /\ (~MatchesDigits(value.c) \/ Len(value.c) # length)
  THEN message ELSE Undefined

isNotSameAs(value, otherValue, message) ==
  IF value = otherValue THEN message ELSE Undefined

\* A rule as validate receives it: one of the functions above with its other
\* arguments bound, as in  v => hasMinLength(v, 6)  or  v => isRequired(v, '').
\* message is Absent where the caller leaves the default.
Rule(fn, arg, message) == [fn |-> fn, arg |-> arg, message |-> message]

\* `${n}` for a one-digit number n.
Decimal(n) == <<"0", "1", "2", "3", "4", "5", "6", "7", "8", "9">>[n + 1]

\* The default value of the message parameter.
DefaultMessage(r) ==
  CASE r.fn = "isRequired" -> JStr("This field is required.")
    [] r.fn = "isValidEmail" -> JStr("Invalid email format.")
    [] r.fn = "hasMinLength" -> JStr("Must be at least " \o Decimal(r.arg) \o " characters.")
    [] r.fn = "isMatching" -> JStr("Values do not match.")
    [] r.fn = "isNumericAndLength" -> JStr("Must be a " \o Decimal(r.arg) \o "-digit number.")
    [] r.fn = "isNotSameAs" -> JStr("Cannot be the same as the current value.")

\* rule(value)
Apply(r, value) ==
  LET message == IF r.message = Absent THEN DefaultMessage(r) ELSE r.message IN
  CASE r.fn = "isRequired" -> isRequired(value, message)
    [] r.fn = "isValidEmail" -> isValidEmail(value, message)
    [] r.fn = "hasMinLength" -> hasMinLength(value, r.arg, message)
    [] r.fn = "isMatching" -> isMatching(value, r.arg, message)
    [] r.fn = "isNumericAndLength" -> isNumericAndLength(value, r.arg, message)
    [] r.fn = "isNotSameAs" -> isNotSameAs(value, r.arg, message)

RECURSIVE validate(_, _)
validate(value, rules) ==
  IF rules = <<>> THEN Undefined
  ELSE LET error == Apply(Head(rules), value) IN
       IF Truthy(error) THEN error ELSE validate(value, Tail(rules))

\* The longest rule list validate is applied to.
MaxRules == 3

\* The values validate is applied to: null, undefined and the texts a user
\* may type into any field.
FieldValues ==
  {Null, Undefined}
    \cup {JChars(c) : c \in EmailInputs \cup PasswordInputs \cup OtpInputs}

\* The rules validate is applied to: each function with its default message,
\* and isRequired with a message the caller chose.
Rules ==
  { Rule("isRequired", Absent, Absent),
    Rule("isRequired", Absent, JStr("")),
    Rule("isValidEmail", Absent, Absent),
    Rule("hasMinLength", 6, Absent),
    Rule("isNumericAndLength", 6, Absent),
    Rule("isMatching", JChars(<<"a", "b", "c", "d", "e", "f">>), Absent),
    Rule("isNotSameAs", JChars(<<"a", "b", "c">>), Absent) }

RuleLists == UNION {[1..n -> Rules] : n \in 0..MaxRules}

\* A call of validate about to be made: App and the forms play no part.
InitValidation ==
  /\ storage = Null
  /\ token = Null
  /\ user = Null
  /\ loading = TRUE
  /\ flashMessage = Null
  /\ flashType = Null
  /\ currentPage = Page("login", Null)
  /\ isInitialMount = TRUE
  /\ timers = 0
  /\ form = MountedForm(Page("login", Null))
  /\ inflight = EmptyBag
  /\ userCalls = 0
  /\ verified = {}
  /\ lastEvent \in {Event("validate.call", [value |-> value, rules |-> rules],
                           NoRequest, Undefined) :
                       value \in FieldValues, rules \in RuleLists}

\* The call: its arguments and what it returned.
validation_validate ==
  /\ lastEvent.op = "validate.call"
  /\ lastEvent' = [lastEvent EXCEPT !.op = "validate",
                                    !.res = validate(lastEvent.in.value, lastEvent.in.rules)]
  /\ UNCHANGED << storage, token, user, loading, flashMessage, flashType, currentPage,
                  isInitialMount, timers, form, inflight, userCalls, verified >>

NextValidation == validation_validate

SpecValidation == InitValidation /\ [][NextValidation]_vars

\* ================================================================ claims
\* What the specification says, written apart from the handlers above.

\* The role table of the specification.
RecognizedRoles == {"super_admin", "school_admin", "hod", "teacher", "student"}

RoleDestination(role) ==
  IF role \in {JStr(r) : r \in RecognizedRoles}
  THEN Page("dashboard", Null)
  ELSE Page("login", Null)

\* Values a role may have: the recognized ones, others, and none.
RoleValues ==
  {JStr(r) : r \in RecognizedRoles \cup {"guest", "admin", "Teacher", ""}}
    \cup {Undefined, Null}

\* The role of a payload; a payload that is no object has none.
PayloadRole(data) == IF Throws(data) THEN Undefined ELSE Get(data, "role")

IsSet(v) == ~Throws(v)

InFlight(q) == BagCardinality(q)

\* C1: the GET /user session check is issued at most once in the lifetime of
\* the application, whatever is written to the token or the user afterwards.
C1_SessionCheckAtMostOnce == userCalls <= 1

\* C1 witness: the check was issued, and a later login has changed the token.
C1_Witness ==
  /\ userCalls = 1
  /\ lastEvent.op = "login.success"
  /\ token \in Tokens

\* C2: started with a stored token, once the session check has failed exactly
\* one /user request was issued, the token is null in state and gone from
\* storage, user is null, the page is login without data and the
\* session-expired message is shown.
C2_RejectedSessionCheck ==
  lastEvent.op = "checkAuth.failure" =>
    /\ userCalls = 1
    /\ token = Null
    /\ storage = Null
    /\ user = Null
    /\ currentPage = Page("login", Null)
    /\ flashMessage = JStr("Your session has expired. Please log in again.")

\* C2 witness: the check has failed with a network error.
C2_Witness ==
  /\ lastEvent.op = "checkAuth.failure"
  /\ lastEvent.res = NetworkError

\* C3: in every reachable state, user != null implies token != null.
C3_UserImpliesToken == IsSet(user) => IsSet(token)

\* C3 witness: a user is set by the response to a request whose form was
\* left before the response arrived.
C3_Witness ==
  /\ lastEvent.op = "login.success"
  /\ ~lastEvent.req.live
  /\ IsSet(user)

\* C4: a success result of /login, in one step, stores the response's
\* access_token under authToken and in the token state, sets user to the
\* response's user, shows 'Login successful!' and sets the page the role
\* table gives for the user's role.
C4_LoginSuccess ==
  lastEvent.op = "login.success" =>
    LET data == lastEvent.res.data IN
    /\ storage = Get(data, "access_token")
    /\ token = Get(data, "access_token")
    /\ user = Get(data, "user")
    /\ flashMessage = JStr("Login successful!")
    /\ flashType = JStr("success")
    /\ currentPage = RoleDestination(PayloadRole(Get(data, "user")))

\* C4 witness: a login has succeeded and led to the dashboard.
C4_Witness ==
  /\ lastEvent.op = "login.success"
  /\ currentPage.name = "dashboard"

\* C5: a success result of /profile/reset-password removes the stored token,
\* sets token and user to null and the page to login without data.
C5_PasswordChangeLogsOut ==
  lastEvent.op = "profile-settings.success" =>
    /\ storage = Null
    /\ token = Null
    /\ user = Null
    /\ currentPage = Page("login", Null)

\* C5 witness: the password was changed from the profile page.
C5_Witness ==
  /\ lastEvent.op = "profile-settings.success"
  /\ lastEvent.req.live

\* C6: logout removes the stored token, sets token and user to null, shows
\* 'Logged out successfully.' and sets the page to login without data, and
\* issues no request; the profile-settings button sets the page to
\* profile-settings without data and changes nothing else.
C6_DashboardActions ==
  [][ /\ lastEvent'.op = "dashboard.logout" =>
           /\ storage' = Null
           /\ token' = Null
           /\ user' = Null
           /\ flashMessage' = JStr("Logged out successfully.")
           /\ flashType' = JStr("success")
           /\ currentPage' = Page("login", Null)
           /\ InFlight(inflight') = InFlight(inflight)
           /\ userCalls' = userCalls
      /\ lastEvent'.op = "dashboard.profileSettings" =>
           /\ currentPage' = Page("profile-settings", Null)
           /\ InFlight(inflight') = InFlight(inflight)
           /\ UNCHANGED << storage, token, user, loading, flashMessage, flashType,
                           timers, userCalls >>
    ]_vars

\* C6 witness: the user has logged out from the dashboard.
C6_Witness ==
  /\ lastEvent.op = "dashboard.logout"
  /\ currentPage.name = "login"

\* C7: started with a stored token, a success result of the session check
\* sets user to the payload, leaves the token as it is in state and in
\* storage, and sets the page the role table gives for the payload's role.
C7_AcceptedSessionCheck ==
  [][ lastEvent'.op = "checkAuth.success" =>
        /\ user' = lastEvent'.res.data
        /\ token' = token
        /\ storage' = storage
        /\ currentPage' = RoleDestination(PayloadRole(lastEvent'.res.data))
    ]_vars

\* C7 witness: the check has succeeded and led to the dashboard.
C7_Witness ==
  /\ lastEvent.op = "checkAuth.success"
  /\ currentPage.name = "dashboard"
  /\ token = StoredToken

\* C8: redirectToDashboard gives dashboard without data for exactly the five
\* recognized roles and login without data for every other value, a missing
\* role included; after a login or a session check that redirected, the page
\* is that of the table.
C8_RoleTable ==
  /\ \A role \in RoleValues : redirectToDashboard(role) = RoleDestination(role)
  /\ lastEvent.op = "login.success" =>
       currentPage = RoleDestination(PayloadRole(Get(lastEvent.res.data, "user")))
  /\ (lastEvent.op = "checkAuth.success" /\ ~Throws(lastEvent.res.data)) =>
       currentPage = RoleDestination(PayloadRole(lastEvent.res.data))

\* C8 witness: a login with an unrecognized role has led back to login.
C8_Witness ==
  /\ lastEvent.op = "login.success"
  /\ Get(user, "role") = JStr("guest")
  /\ currentPage = Page("login", Null)

\* The fields of a form that fail their validation, each judged alone.
Among(names, failing) == {n \in names : failing[n]}

InvalidFields(op, in) ==
  CASE op = "login.submit" ->
         Among({"email", "password"},
               [email |-> ~MatchesLooseEmail(in.email),
                password |-> Len(in.password) < 6])
    [] op = "forgot-password.submit" ->
         Among({"email"}, [email |-> ~MatchesEmail(in.email)])
    [] op = "verify-otp.submit" ->
         Among({"otp"}, [otp |-> ~MatchesSixDigits(in.otp)])
    [] op = "reset-password.submit" ->
         Among({"email", "otp", "password", "passwordConfirmation"},
               [email |-> in.email = <<>>,
                otp |-> in.otp = <<>>,
                password |-> Len(in.password) < 6,
                passwordConfirmation |-> in.passwordConfirmation # in.password])
    [] op = "profile-settings.submit" ->
         Among({"currentPassword", "newPassword", "confirmNewPassword"},
               [currentPassword |-> in.currentPassword = <<>>,
                newPassword |-> Len(in.password) < 6 \/ in.password = in.currentPassword,
                confirmNewPassword |-> in.passwordConfirmation # in.password])

SubmitEndpoint ==
  [x \in {"login.submit", "forgot-password.submit", "verify-otp.submit",
          "reset-password.submit", "profile-settings.submit"} |->
     CASE x = "login.submit" -> "/login"
       [] x = "forgot-password.submit" -> "/forgot-password"
       [] x = "verify-otp.submit" -> "/verify-otp"
       [] x = "reset-password.submit" -> "/reset-password"
       [] x = "profile-settings.submit" -> "/profile/reset-password"]

\* C9: on every form a submit issues its request if and only if no field
\* fails its validation; an invalid submit issues no request, changes neither
\* session nor page, and leaves an error for each invalid field, the fields
\* being validated independently of one another.
C9_SubmitIffValid ==
  [][ lastEvent'.op \in DOMAIN SubmitEndpoint =>
        LET invalid == InvalidFields(lastEvent'.op, lastEvent'.in) IN
        /\ DOMAIN form'.errors.o = invalid
        /\ UNCHANGED << storage, token, user, currentPage, loading >>
        /\ IF invalid = {}
           THEN \E r \in BagToSet(inflight') :
                  /\ r.endpoint = SubmitEndpoint[lastEvent'.op]
                  /\ r.live
                  /\ inflight' = Sent(inflight, r)
           ELSE /\ inflight' = inflight
                /\ UNCHANGED << flashMessage, flashType, timers, userCalls >>
    ]_vars

\* C9 witness: a login submit with both fields invalid left both errors and
\* no request.
C9_Witness ==
  /\ lastEvent.op = "login.submit"
  /\ DOMAIN form.errors.o = {"email", "password"}
  /\ inflight = EmptyBag

\* C10: a success result of /forgot-password sets the page to verify-otp with
\* the email of that request; a success result of /verify-otp sets the page
\* to reset-password with the email and otp of that request; every
\* /reset-password request carries a pair that an earlier /verify-otp request
\* had accepted.
C10_RecoveryHandOff ==
  /\ lastEvent.op = "forgot-password.success" =>
       currentPage = Page("verify-otp", JObj([email |-> JChars(lastEvent.req.email)]))
  /\ lastEvent.op = "verify-otp.success" =>
       currentPage = Page("reset-password",
                          JObj([email |-> JChars(lastEvent.req.email),
                                otp |-> JChars(lastEvent.req.otp)]))
  /\ \A r \in BagToSet(inflight) :
       r.endpoint = "/reset-password" => << r.email, r.otp >> \in verified

\* C10 witness: a reset request for the second email and code is in flight
\* after another pair was accepted as well.
C10_Witness ==
  /\ \E r \in BagToSet(inflight) :
       /\ r.endpoint = "/reset-password"
       /\ r.email = <<"z", "@", "b", ".", "c">>
       /\ r.otp = <<"6", "5", "4", "3", "2", "1">>
  /\ Cardinality(verified) >= 2

\* The steps of the recovery flow: submits, responses and links of its
\* three forms.
RecoveryOps ==
  {form_ \o "." \o step :
     form_ \in {"forgot-password", "verify-otp", "reset-password"},
     step \in {"submit", "success", "failure", "back"}}

\* C11: a success result of /reset-password sets the page to login without
\* data, and no step of the recovery flow, succeeding or failing, writes the
\* token, the user or the stored token.
C11_RecoveryEstablishesNoSession ==
  [][ lastEvent'.op \in RecoveryOps =>
        /\ UNCHANGED << token, user, storage >>
        /\ lastEvent'.op = "reset-password.success" =>
             currentPage' = Page("login", Null)
    ]_vars

\* C11 witness: the password was reset and the application is back on login
\* with no session.
C11_Witness ==
  /\ lastEvent.op = "reset-password.success"
  /\ lastEvent.req.live
  /\ currentPage = Page("login", Null)
  /\ token = Null /\ user = Null /\ storage = Null

\* A page's data field is a string of the given shape.
IsText(d, k) ==
  /\ IsObject(d)
  /\ HasKey(d, k)
  /\ Get(d, k).t = "string"
  /\ "c" \in DOMAIN Get(d, k)

\* C12: on verify-otp and reset-password data.email is a non-empty string
\* that passes the forgot-password email validation, on reset-password
\* data.otp is a string of six digits, and every other page has data null.
C12_PageData ==
  LET d == currentPage.data IN
  /\ currentPage.name \in {"verify-otp", "reset-password"} =>
       /\ IsText(d, "email")
       /\ Get(d, "email").c # <<>>
       /\ MatchesEmail(Get(d, "email").c)
  /\ currentPage.name = "reset-password" =>
       /\ IsText(d, "otp")
       /\ MatchesSixDigits(Get(d, "otp").c)
  /\ currentPage.name \notin {"verify-otp", "reset-password"} => d = Null

\* C12 witness: the reset-password page, set by the response to a request of
\* a form that was left before it arrived.
C12_Witness ==
  /\ currentPage.name = "reset-password"
  /\ lastEvent.op = "verify-otp.success"
  /\ ~lastEvent.req.live

\* The message each form shows when the failure carries none.
FailureFallback ==
  [x \in {"login.failure", "forgot-password.failure", "verify-otp.failure",
          "reset-password.failure", "profile-settings.failure"} |->
     CASE x = "login.failure" -> "Login failed. Please try again."
       [] x = "forgot-password.failure" -> "Failed to send OTP. Please try again."
       [] x = "verify-otp.failure" -> "OTP verification failed. Please try again."
       [] x = "reset-password.failure" -> "Password reset failed. Please try again."
       [] x = "profile-settings.failure" -> "Failed to update password. Please try again."]

\* C13: a failure result of any of the five form endpoints leaves token,
\* user, the stored token and the page as they were; it clears the form's
\* loading flag, replaces the form's errors by error.details or an empty map
\* and shows the error message, and does nothing else (a form that is no
\* longer mounted is not written; a result without an error record ends the
\* handler after the loading flag).
C13_FailureFrame ==
  [][ lastEvent'.op \in DOMAIN FailureFallback =>
        LET req == lastEvent'.req
            error == lastEvent'.res.error
        IN
        /\ UNCHANGED << token, user, storage, currentPage, loading, isInitialMount,
                        userCalls, verified >>
        /\ inflight' = Without(inflight, req)
        /\ form' = IF ~req.live THEN form
                   ELSE IF Throws(error) THEN [form EXCEPT !.loading = FALSE]
                   ELSE [form EXCEPT !.loading = FALSE,
                                     !.errors = Or(Get(error, "details"), EmptyObject)]
        /\ IF Throws(error)
           THEN UNCHANGED << flashMessage, flashType, timers >>
           ELSE /\ flashMessage' = Or(Get(error, "message"),
                                      JStr(FailureFallback[lastEvent'.op]))
                /\ flashType' = JStr("danger")
    ]_vars

\* C13 witness: a password change was refused with field errors while a
\* session existed, and the errors and the message are those of the response.
C13_Witness ==
  /\ lastEvent.op = "profile-settings.failure"
  /\ lastEvent.req.live
  /\ token # Null
  /\ form.errors = JObj([email |-> JStr("bad")])
  /\ flashMessage = JStr("srv")

\* Where each navigation link leads.
LinkTarget ==
  [x \in {"login.forgotPassword", "forgot-password.back", "verify-otp.back",
          "reset-password.back", "profile-settings.back"} |->
     CASE x = "login.forgotPassword" -> "forgot-password"
       [] x = "forgot-password.back" -> "login"
       [] x = "verify-otp.back" -> "forgot-password"
       [] x = "reset-password.back" -> "login"
       [] x = "profile-settings.back" -> "dashboard"]

\* C14: every navigation link sets its designated page with data null and
\* changes nothing else: no request is issued or answered, and token, user,
\* storage, the flash message and the loading gate stay as they were.
C14_NavigationLinks ==
  [][ lastEvent'.op \in DOMAIN LinkTarget =>
        /\ currentPage' = Page(LinkTarget[lastEvent'.op], Null)
        /\ InFlight(inflight') = InFlight(inflight)
        /\ UNCHANGED << token, user, storage, loading, flashMessage, flashType,
                        timers, isInitialMount, userCalls, verified >>
    ]_vars

\* C14 witness: the link back from verify-otp, a page that had data, was
\* followed.
C14_Witness ==
  /\ lastEvent.op = "verify-otp.back"
  /\ currentPage = Page("forgot-password", Null)

\* C15: at most one dismissal timer is pending at any time, and a message
\* is never cleared by a timer that was scheduled for an earlier message
\* (the timers fire in the order they were set, so the timer of the message
\* on display is the one set last: it fires when it is the only one pending).
C15_SingleDismissalTimer ==
  [][ /\ timers' <= 1
      /\ (lastEvent'.op = "showFlashMessage.timeout" /\ Truthy(flashMessage)) =>
           timers = 1
    ]_vars

\* C16: every flash message that is shown is eventually cleared without any
\* user action, the pending timers firing; so is the newer message that
\* replaced one.
C16_FlashEventuallyCleared == Truthy(flashMessage) ~> (flashMessage = Null)

\* C16 witness: a message was replaced by a newer one while its timer was
\* pending, and the timers have since cleared the display.
C16_Witness ==
  /\ lastEvent.op = "showFlashMessage.timeout"
  /\ flashMessage = Null
  /\ timers = 0
  /\ currentPage.name = "dashboard"

\* C17: apiService.request never rejects: for every outcome of the transport
\* it resolves to a result with a boolean success field, and when fetch
\* rejects or the body is not JSON the result is exactly the NETWORK_ERROR
\* failure.
C17_RequestNeverRejects ==
  lastEvent.op = "apiService.request" =>
    /\ "success" \in DOMAIN lastEvent.res
    /\ lastEvent.res.success \in BOOLEAN
    /\ ~lastEvent.in.parsed =>
         lastEvent.res =
           [success |-> FALSE, data |-> Undefined,
            error |-> JObj([message |-> JStr("Network error or server unreachable."),
                            code |-> JStr("NETWORK_ERROR")])]

\* C17 witness: the transport failed and the call resolved to a failure.
C17_Witness ==
  /\ lastEvent.op = "apiService.request"
  /\ ~lastEvent.in.parsed
  /\ ~lastEvent.res.success

\* The results the specification names.
ResultOk(d) == [success |-> TRUE, data |-> d, error |-> Undefined]
ResultFail(e) == [success |-> FALSE, data |-> Undefined, error |-> e]

ValidationError(body) ==
  ResultFail(JObj([message |-> IF Truthy(Get(body, "message")) THEN Get(body, "message")
                               ELSE JStr("Validation failed"),
                   code |-> JStr("VALIDATION_ERROR"),
                   details |-> Get(body, "errors")]))

\* The result for a body with a boolean success field, errors counting as
\* present when present(body).
ExplicitResult(body, present(_)) ==
  IF Get(body, "success") = JBool(TRUE) THEN ResultOk(Get(body, "data"))
  ELSE IF present(body) THEN ValidationError(body)
  ELSE ResultFail(Get(body, "error"))

HasBooleanSuccess(ev) ==
  /\ ev.op = "apiService.request"
  /\ ev.in.parsed
  /\ IsObject(ev.in.body)
  /\ Get(ev.in.body, "success") \in {JBool(TRUE), JBool(FALSE)}

ErrorsKeyPresent(body) == HasKey(body, "errors")
ErrorsTruthy(body) == Truthy(Get(body, "errors"))

\* C18 as stated: for a body with an explicit success field, success true
\* gives {success:true, data: body.data}; success false with an errors key
\* present gives the VALIDATION_ERROR failure with details body.errors,
\* whatever body.error is; success false without errors gives
\* {success:false, error: body.error}.
C18_ErrorsPresentAsKey ==
  HasBooleanSuccess(lastEvent) =>
    lastEvent.res = ExplicitResult(lastEvent.in.body, ErrorsKeyPresent)

\* C18 amended: the same, errors counting as present when body.errors is a
\* truthy value (an object, even an empty one; not null, "", false or 0).
C18_ErrorsPresentAsTruthy ==
  HasBooleanSuccess(lastEvent) =>
    lastEvent.res = ExplicitResult(lastEvent.in.body, ErrorsTruthy)

\* C18 witness: success false with both errors and error: the validation
\* failure wins.
C18_Witness ==
  /\ HasBooleanSuccess(lastEvent)
  /\ Get(lastEvent.in.body, "success") = JBool(FALSE)
  /\ Get(lastEvent.in.body, "errors") = JObj([email |-> JStr("bad")])
  /\ Get(lastEvent.in.body, "error") = JObj([message |-> JStr("srv")])
  /\ Get(lastEvent.res.error, "code") = JStr("VALIDATION_ERROR")

UnexpectedResponseError(body) ==
  ResultFail(JObj([message |-> IF Truthy(Get(body, "message")) THEN Get(body, "message")
                               ELSE JStr("An unexpected API response format was received."),
                   code |-> JStr("UNEXPECTED_RESPONSE"),
                   details |-> body]))

\* The result for a body without a success field, an object counting as
\* free of errors when clean(body).
FallbackResult(body, clean(_)) ==
  IF IsObject(body) /\ clean(body) THEN ResultOk(body)
  ELSE UnexpectedResponseError(body)

HasNoSuccess(ev) ==
  /\ ev.op = "apiService.request"
  /\ ev.in.parsed
  /\ ev.in.body # Null
  /\ Get(ev.in.body, "success") = Undefined

NoErrorKeys(body) == ~HasKey(body, "error") /\ ~HasKey(body, "errors")
NoErrorValues(body) == ~Truthy(Get(body, "error")) /\ ~Truthy(Get(body, "errors"))

C20_FailureCarriesError ==
  (lastEvent.op = "apiService.request" /\ ~lastEvent.res.success) =>
    /\ IsObject(lastEvent.res.error)
    /\ HasKey(lastEvent.res.error, "message")


\* ------------------------------------------------------------------ C21
\* What each rule of a list returns for a value, in list order.
RuleResults(value, rules) == [i \in 1..Len(rules) |-> Apply(rules[i], value)]

\* The result of the first rule of the list that does not return undefined;
\* undefined when every rule returns undefined.
FirstDefined(results) ==
  LET failing == {i \in 1..Len(results) : results[i] # Undefined} IN
  IF failing = {} THEN Undefined
  ELSE results[CHOOSE i \in failing : \A j \in failing : i <= j]

\* C21: validate(value, rules) returns the message of the first rule in list
\* order whose result is not undefined, never a later rule's message, and
\* returns undefined if and only if every rule returns undefined.
C21_FirstFailingRule ==
  lastEvent.op = "validate" =>
    lastEvent.res = FirstDefined(RuleResults(lastEvent.in.value, lastEvent.in.rules))

\* ------------------------------------------------------------------ C22
\* One rule of a field judged on the typed values: whether the value
\* violates it, and the message of the rule.
Check(fails, message) == [fails |-> fails, message |-> message]

\* The message of the first violated rule of a field's rule order; Undefined
\* when the value violates none.
FirstViolated(checks) ==
  LET failing == {i \in 1..Len(checks) : checks[i].fails} IN
  IF failing = {} THEN Undefined
  ELSE JStr(checks[CHOOSE i \in failing : \A j \in failing : i <= j].message)

\* The fields of each form that have several rules, with their rules in order.
FieldRules(op, in) ==
  CASE op = "login.submit" ->
         [email |-> << Check(in.email = <<>>, "Email is required."),
                       Check(~MatchesLooseEmail(in.email), "Email format is invalid.") >>,
          password |-> << Check(in.password = <<>>, "Password is required."),
                          Check(Len(in.password) < 6,
                                "Password must be at least 6 characters.") >>]
    [] op = "forgot-password.submit" ->
         [email |-> << Check(in.email = <<>>, "Email is required."),
                       Check(~MatchesEmail(in.email), "Email format is invalid.") >>]
    [] op = "verify-otp.submit" ->
         [otp |-> << Check(in.otp = <<>>, "OTP is required."),
                     Check(~MatchesSixDigits(in.otp), "OTP must be a 6-digit number.") >>]
    [] op = "reset-password.submit" ->
         [password |-> << Check(in.password = <<>>, "New password is required."),
                          Check(Len(in.password) < 6,
                                "Password must be at least 6 characters.") >>]
    [] op = "profile-settings.submit" ->
         [password |-> << Check(in.password = <<>>, "New password is required."),
                          Check(Len(in.password) < 6,
                                "New password must be at least 6 characters."),
                          Check(in.password = in.currentPassword,
                                "New password cannot be the same as the current password.") >>]

\* The key of form.errors under which a field's message is surfaced.
ErrorKey(op, field) ==
  IF op = "profile-settings.submit" /\ field = "password" THEN "newPassword" ELSE field

\* C22: in every form the message surfaced for a field after a submit is the
\* message of the first rule, in the field's rule order, that the value
\* violates; for the profile-settings new password (required, at least 6
\* characters, not the same as the current password) a value both too short
\* and equal to the current password surfaces the minimum-length message.
C22_FirstFailingRuleSurfaced ==
  lastEvent.op \in DOMAIN SubmitEndpoint =>
    LET rules == FieldRules(lastEvent.op, lastEvent.in) IN
    \A field \in DOMAIN rules :
      Get(form.errors, ErrorKey(lastEvent.op, field)) = FirstViolated(rules[field])

\* C22 on the forms other than profile-settings: the message surfaced for a
\* field is the message of the first rule the value violates.
C22_OtherFormsFirstFailingRule ==
  (lastEvent.op \in DOMAIN SubmitEndpoint /\ lastEvent.op # "profile-settings.submit") =>
    LET rules == FieldRules(lastEvent.op, lastEvent.in) IN
    \A field \in DOMAIN rules :
      Get(form.errors, ErrorKey(lastEvent.op, field)) = FirstViolated(rules[field])

\* ------------------------------------------------------------------ C23
\* A parsed body that is not an object: JSON null or a primitive.
IsNullOrPrimitive(body) == body.t \in {"null", "string", "number", "boolean"}

\* The fallback step's classification of such a body: it has no message.
UnexpectedBody(body) ==
  ResultFail(JObj([message |-> JStr("An unexpected API response format was received."),
                   code |-> JStr("UNEXPECTED_RESPONSE"),
                   details |-> body]))

\* C23: a successfully parsed body that is JSON null or a primitive (string,
\* number, boolean) resolves to {success:false, error:{code:
\* 'UNEXPECTED_RESPONSE', details: body, message: the default text}}, not to
\* NETWORK_ERROR.
C23_NullOrPrimitiveBody ==
  ( /\ lastEvent.op = "apiService.request"
    /\ lastEvent.in.parsed
    /\ IsNullOrPrimitive(lastEvent.in.body) ) =>
    lastEvent.res = UnexpectedBody(lastEvent.in.body)

\* C23 on the primitives alone: a parsed string, number or boolean resolves
\* to the UNEXPECTED_RESPONSE record with the body as details.
C23_PrimitiveBody ==
  ( /\ lastEvent.op = "apiService.request"
    /\ lastEvent.in.parsed
    /\ lastEvent.in.body.t \in {"string", "number", "boolean"} ) =>
    lastEvent.res = UnexpectedBody(lastEvent.in.body)

\* ------------------------------------------------------------------ C24
\* The field chains of the validation pipeline for the login and verify-otp
\* forms.
EmailChain == << Rule("isRequired", Absent, Absent), Rule("isValidEmail", Absent, Absent) >>
PasswordChain == << Rule("isRequired", Absent, Absent), Rule("hasMinLength", 6, Absent) >>
OtpChain == << Rule("isRequired", Absent, Absent), Rule("isNumericAndLength", 6, Absent) >>

\* The submit that led to this state issued the form's request.
Issued(endpoint) ==
  /\ form.loading
  /\ \E r \in BagToSet(inflight) : r.endpoint = endpoint /\ r.live

\* C24: login issues /login iff validate(email, [isRequired, isValidEmail])
\* and validate(password, [isRequired, hasMinLength 6]) are both undefined,
\* and verify-otp issues /verify-otp iff validate(otp, [isRequired,
\* isNumericAndLength 6]) is undefined; a whitespace-only value is never
\* submitted.
C24_InlineMatchesPipeline ==
  /\ lastEvent.op = "login.submit" =>
       ( Issued("/login") <=>
           /\ validate(JChars(lastEvent.in.email), EmailChain) = Undefined
           /\ validate(JChars(lastEvent.in.password), PasswordChain) = Undefined )
  /\ lastEvent.op = "verify-otp.submit" =>
       ( Issued("/verify-otp") <=>
           validate(JChars(lastEvent.in.otp), OtpChain) = Undefined )

\* C24 on the verify-otp form alone: /verify-otp is issued iff
\* validate(otp, [isRequired, isNumericAndLength 6]) is undefined.
C24_VerifyOtpMatchesPipeline ==
  lastEvent.op = "verify-otp.submit" =>
    ( Issued("/verify-otp") <=> validate(JChars(lastEvent.in.otp), OtpChain) = Undefined )

\* ------------------------------------------------------------------ C25
\* The steps of checkAuth that end it: no stored token, or the /user response
\* delivered.
SessionCheckDone == {"checkAuth.noToken", "checkAuth.success", "checkAuth.failure"}

\* C25: from application start, in every case (no stored token; session
\* check success with any payload, including one with no data; session check
\* failure, including a network error) the loading gate is cleared once the
\* session-check response has been delivered, and once cleared it never
\* becomes true again.
C25_LoadingGateCleared ==
  [][ /\ lastEvent'.op \in SessionCheckDone => ~loading'
      /\ ~loading => ~loading' ]_vars

\* C25 for the responses other than a success without data: the gate is
\* cleared by the step that handles the response and stays cleared.
C25_LoadingGateClearedWithData ==
  [][ /\ ( /\ lastEvent'.op \in SessionCheckDone
           /\ ~(lastEvent'.op = "checkAuth.success" /\ Throws(lastEvent'.res.data)) )
         => ~loading'
      /\ ~loading => ~loading' ]_vars

\* ------------------------------------------------------------------ C26
\* The requests in flight that the mounted form instance issued.
OfMountedForm(q) ==
  {r \in BagToSet(q) : r.live /\ \E op \in DOMAIN SubmitEndpoint : SubmitEndpoint[op] = r.endpoint}

\* How many they are, a request sent twice counted twice.
PendingOfMountedForm(q) ==
  LET own == OfMountedForm(q) IN
  IF own = {} THEN 0 ELSE BagCardinality([r \in own |-> q[r]])

FormResponses ==
  {"login.success", "login.failure", "forgot-password.success", "forgot-password.failure",
   "verify-otp.success", "verify-otp.failure", "reset-password.success",
   "reset-password.failure", "profile-settings.success", "profile-settings.failure"}

\* C26: a mounted form instance has at most one request in flight; its
\* loading flag is true exactly while that request awaits its response, a
\* submit happens only while the flag is false (the control is disabled while
\* it is true), and the flag is false after every response the instance
\* handles, success, failure or network error.
C26_OneRequestPerForm ==
  [][ /\ PendingOfMountedForm(inflight') <= 1
      /\ form'.loading <=> PendingOfMountedForm(inflight') = 1
      /\ lastEvent'.op \in DOMAIN SubmitEndpoint => ~form.loading
      /\ (lastEvent'.op \in FormResponses /\ lastEvent'.req.live) => ~form'.loading
    ]_vars

\* C26 witness: a mounted form has handled a network error while the request
\* of an earlier instance is still in flight, and its flag is false again.
C26_Witness ==
  /\ lastEvent.op \in FormResponses
  /\ lastEvent.req.live
  /\ lastEvent.res = NetworkError
  /\ ~form.loading
  /\ inflight # EmptyBag

\* ------------------------------------------------------------------ C27
\* C27: a response delivered after the user navigated away from the form
\* that issued the request changes neither token, user, the stored token nor
\* the current page.
C27_StaleResponseIgnored ==
  [][ (lastEvent'.op \in FormResponses /\ ~lastEvent'.req.live) =>
        UNCHANGED << token, user, storage, currentPage >> ]_vars

\* ------------------------------------------------------------------ C28
\* C28: in every reachable state the token held in durable storage under
\* authToken equals the token state: both are absent/null or both hold the
\* same string.
C28_StorageEqualsToken ==
  \/ storage = Null /\ token = Null
  \/ storage.t = "string" /\ token = storage

\* C28 witness: the stored token was rejected at startup and a later login
\* stored a new one, in storage and in the state.
C28_Witness ==
  /\ userCalls = 1
  /\ lastEvent.op = "login.success"
  /\ storage \in Tokens
  /\ token = storage

\* ------------------------------------------------------------------ C29
\* C29: in every reachable state where the page is dashboard or
\* profile-settings, token != null, user != null and user.role is one of the
\* five recognized roles: the Dashboard's 'User data not available' and
\* 'Unknown role' branches are unreachable inside the App.
C29_DashboardHasSession ==
  currentPage.name \in {"dashboard", "profile-settings"} =>
    /\ IsSet(token)
    /\ IsSet(user)
    /\ PayloadRole(user) \in {JStr(r) : r \in RecognizedRoles}

\* C29 witness: the dashboard is displayed after the response to a login
\* whose form had been left, while a request of another form is in flight.
C29_Witness ==
  /\ currentPage.name = "dashboard"
  /\ lastEvent.op = "login.success"
  /\ ~lastEvent.req.live
  /\ inflight # EmptyBag

\* ------------------------------------------------------------------ C30
\* The pages of a visitor without a session.
PublicPages == {"login", "forgot-password", "verify-otp", "reset-password"}

\* C30: in every reachable state after the loading gate has cleared, if the
\* page is login, forgot-password, verify-otp or reset-password then no
\* session is held: token is null, user is null and durable storage has no
\* token, also after a successful /login or session check whose user has an
\* unrecognized or missing role.
C30_PublicPageHasNoSession ==
  (~loading /\ currentPage.name \in PublicPages) =>
    /\ ~IsSet(token)
    /\ ~IsSet(user)
    /\ storage = Null
====
